---------------------------- MODULE Spec2Model ----------------------------
(***************************************************************************)
(* Model of qudi/util/datastorage.py: the process-wide global metadata      *)
(* registry of DataStorageBase (a class-level dict guarded by a Mutex) and  *)
(* the file operations of TextDataStorage, CsvDataStorage, NpyDataStorage;  *)
(* and of qudi/core/datafitting.py: the list of a FitConfigurationsModel     *)
(* and the last fit of a FitContainer.                                      *)
(*                                                                         *)
(* Python values are modelled as follows.                                  *)
(*   str        a sequence of one-character strings                        *)
(*   None       the one-element sequence NONE                              *)
(*   object     a cell of the heap; a dict maps keys to cells, so that two  *)
(*              dicts can share one (mutable) value                        *)
(*   dict       a function from its keys to its values; <<"dict", d>> where  *)
(*              the argument may be None                                   *)
(*   ndarray    a record [ndim, shape, rows]                               *)
(***************************************************************************)
EXTENDS Integers, Sequences, FiniteSets, TLC

VARIABLES
    heap,                   \* the objects dict values refer to: cell -> content
    global_metadata,        \* DataStorageBase._global_metadata: key -> cell
    global_metadata_lock,   \* DataStorageBase._global_metadata_lock: its holder
    committed,              \* history: global_metadata when last no add or remove
                            \* had bound or popped only part of its keys
    pc,                     \* per thread: the statement it is at
    loc,                    \* per thread: the locals of the call it is in
    self,                   \* the storage instance: its class and attributes
    fs,                     \* the files of the target directory: path -> content
    call,                   \* the last finished call on the instance and its outcome;
                            \* history: the file new_data_file created last
    fit_configurations,     \* FitConfigurationsModel._fit_configurations
    fit_call,               \* the last call on the FitConfigurationsModel, its outcome
                            \* and the signals it emitted
    last_fit_config,        \* FitContainer._last_fit_config
    last_fit_result,        \* FitContainer._last_fit_result
    access_lock,            \* FitContainer._access_lock: its holder
    fit_pc,                 \* per thread: the statement of fit_data or last_fit it is at
    fit_loc,                \* per thread: the locals of that call
    fit_signals             \* the sigLastFitResultChanged signals emitted so far

vars == <<heap, global_metadata, global_metadata_lock, committed, pc, loc, self, fs, call,
          fit_configurations, fit_call,
          last_fit_config, last_fit_result, access_lock, fit_pc, fit_loc, fit_signals>>

registryVars == <<heap, global_metadata, global_metadata_lock, committed, pc, loc>>
storageVars == <<self, fs, call>>
containerVars == <<last_fit_config, last_fit_result, access_lock, fit_pc, fit_loc, fit_signals>>
fitVars == <<fit_configurations, fit_call, containerVars>>

---------------------------------------------------------------------------
(* Bounds of the model *)

MaxCells == 4       \* heap cells
MaxListLen == 2     \* length of a list value after caller mutations
MaxThreads == 2     \* threads working on the registry
MaxCalls == 3       \* calls made on the storage instance
MaxRows == 2        \* data rows a text file holds
MaxThreadCalls == 2 \* registry calls a thread makes
MaxColumns == 2     \* length of a 1-D array
MaxFitCalls == 3    \* calls made on the FitConfigurationsModel
MaxInitialConfigurations == 2   \* configurations handed to its constructor

---------------------------------------------------------------------------
(* Values *)

NONE == <<"<None>">>

Threads == 1..MaxThreads
NoThread == 0

Cells == 1..MaxCells

IntVal(n) == [kind |-> "int", v |-> <<n>>]
ListVal(s) == [kind |-> "list", v |-> s]
FreeCell == [kind |-> "free", v |-> <<>>]

Keys == {"a", "b"}

EmptyDict == [k \in {} |-> 0]

\* m restricted to the keys in ks
Restrict(m, ks) == [k \in ks |-> m[k]]

\* dict.update: the keys of n are (re)bound in m
Update(m, n) == [k \in DOMAIN m \cup DOMAIN n |-> IF k \in DOMAIN n THEN n[k] ELSE m[k]]

\* dict.pop(k, None)
Pop(m, k) == Restrict(m, DOMAIN m \ {k})

\* what a dict shows to a reader: key -> content of the value
View(h, m) == [k \in DOMAIN m |-> h[m[k]]]

Range(m) == {m[k] : k \in DOMAIN m}


---------------------------------------------------------------------------
(* The heap *)

\* the cells some dict of the program refers to
LiveCells(gm, lc) ==
    Range(gm) \cup UNION {Range(lc[t].metadata) \cup Range(lc[t].ret) : t \in Threads}

\* garbage collection: a cell no dict refers to is free again
Collect(h, gm, lc) ==
    [c \in Cells |-> IF c \in LiveCells(gm, lc) THEN h[c] ELSE FreeCell]

FreeCells(h) == {c \in Cells : h[c] = FreeCell}

\* the i-th free cell, by number
NthFree(h, i) == CHOOSE c \in FreeCells(h) : Cardinality({d \in FreeCells(h) : d < c}) = i - 1

\* a dict key that is no str: the int 1
IntKey == "<int 1>"

IsStrKey(k) == k # IntKey

KeyOrder == <<"a", "b", "", IntKey>>

KeySeq(ks) == SelectSeq(KeyOrder, LAMBDA k : k \in ks)

IndexOf(s, x) == CHOOSE i \in 1..Len(s) : s[i] = x

\* copy.deepcopy of a dict of values: every value becomes a new object
DeepCopyRefs(h, entries) ==
    [k \in DOMAIN entries |-> NthFree(h, IndexOf(KeySeq(DOMAIN entries), k))]

DeepCopyHeap(h, entries) ==
    LET refs == DeepCopyRefs(h, entries)
    IN  [c \in Cells |-> IF \E k \in DOMAIN entries : refs[k] = c
                         THEN entries[CHOOSE k \in DOMAIN entries : refs[k] = c]
                         ELSE h[c]]

---------------------------------------------------------------------------
(* Inputs of the registry calls *)

\* the entries of one add_global_metadata call: a str key with its value, or a dict;
\* the last two are the str '' with a value and the dict {1: 1}
Batches ==
    { [k \in {"a"} |-> IntVal(1)],
      [k \in {"a", "b"} |-> IF k = "a" THEN ListVal(<<1>>) ELSE IntVal(1)],
      [k \in {"b"} |-> ListVal(<<1>>)],
      [k \in {""} |-> IntVal(1)],
      [k \in {IntKey} |-> IntVal(1)] }

\* the names of one remove_global_metadata call: a str, or a list of str
NameLists == {<<"a">>, <<"b">>, <<"a", "b">>}

\* the locals of a save_data call a thread is in: its arguments, the path and the
\* header it has computed, the file it appends to, and what it returns
NoFrame ==
    [data |-> [ndim |-> 0, shape |-> <<>>, rows |-> <<>>],
     metadata |-> NONE, notes |-> NONE, filename |-> NONE,
     timestamp |-> [name |-> "", title |-> "", usec |-> 0],
     file_path |-> NONE, header |-> <<>>, target |-> NONE,
     res |-> [err |-> "none", path |-> NONE,
              timestamp |-> [name |-> "", title |-> "", usec |-> 0], shape |-> <<>>]]

IdleLoc ==
    [op |-> "none", metadata |-> EmptyDict, overwrite |-> FALSE, todo |-> <<>>,
     ret |-> EmptyDict, err |-> "none", keys |-> {}, n |-> 0, frame |-> NoFrame]

\* the locals at the start of the next call of thread t
Fresh(t) == [IdleLoc EXCEPT !.n = loc[t].n + 1]

Free(t) == pc[t] \in {"idle", "done"} /\ loc[t].n < MaxThreadCalls

\* the end of a with block of thread t: the lock is free again
Release(t) == IF global_metadata_lock = t THEN NoThread ELSE global_metadata_lock

\* a thread at one of these statements may have applied part of its batch
InBatch(label) == label \in {"add_update", "remove_pop"}

\* a step of thread t: the locals lc, the registry gm and the lock lk after it
Step(t, label, lc, gm, h, lk) ==
    /\ pc' = [pc EXCEPT ![t] = label]
    /\ loc' = [loc EXCEPT ![t] = lc]
    /\ global_metadata' = gm
    /\ heap' = Collect(h, gm, [loc EXCEPT ![t] = lc])
    /\ global_metadata_lock' = lk
    /\ committed' = IF \E u \in Threads : InBatch([pc EXCEPT ![t] = label][u])
                     THEN committed
                     ELSE gm
    /\ UNCHANGED storageVars
    /\ UNCHANGED fitVars

---------------------------------------------------------------------------
(* DataStorageBase.add_global_metadata *)

\* lines 279-280: for a dict with a key that is no str a TypeError is built, and
\* not raised
RaisesForKeys(entries) == FALSE

\* lines 276-281: the entries are deep-copied into the local dict metadata
AddBegin(t, entries, overwrite) ==
    /\ Free(t)
    /\ ~RaisesForKeys(entries)
    /\ LET h0 == Collect(heap, global_metadata, [loc EXCEPT ![t] = Fresh(t)])
       IN  /\ Cardinality(FreeCells(h0)) >= Cardinality(DOMAIN entries)
           /\ Step(t, "add_acquire",
                   [Fresh(t) EXCEPT !.op = "add", !.metadata = DeepCopyRefs(h0, entries),
                                    !.keys = DOMAIN entries, !.overwrite = overwrite],
                   global_metadata, DeepCopyHeap(h0, entries), global_metadata_lock)

\* lines 282-284: the first argument is neither a str nor a dict
AddBadType(t) ==
    /\ Free(t)
    /\ Step(t, "done", [Fresh(t) EXCEPT !.op = "add", !.err = "TypeError"],
            global_metadata, heap, global_metadata_lock)

\* line 286: with cls._global_metadata_lock
AddAcquire(t) ==
    /\ pc[t] = "add_acquire"
    /\ global_metadata_lock = NoThread
    /\ Step(t, "add_check", loc[t], global_metadata, heap, t)

\* a duplicate check that looks at the first key of the batch only
DuplicateKeysOfFirstKey(metadata, gm) ==
    {k \in DOMAIN metadata : k = Head(KeySeq(DOMAIN metadata))} \cap DOMAIN gm

\* line 288
DuplicateKeys(metadata, gm) == DOMAIN metadata \cap DOMAIN gm

\* lines 287-291: the duplicate check; the KeyError leaves the with block
AddCheck(t) ==
    /\ pc[t] = "add_check"
    /\ IF ~loc[t].overwrite /\ DuplicateKeys(loc[t].metadata, global_metadata) # {}
       THEN Step(t, "done", [loc[t] EXCEPT !.err = "KeyError", !.metadata = EmptyDict],
                 global_metadata, heap, Release(t))
       ELSE Step(t, "add_update", [loc[t] EXCEPT !.todo = KeySeq(DOMAIN loc[t].metadata)],
                 global_metadata, heap, t)

\* line 292: dict.update binds the keys one after the other; the with block
\* ends after the last
AddUpdate(t) ==
    /\ pc[t] = "add_update"
    /\ LET k == Head(loc[t].todo)
           rest == Tail(loc[t].todo)
           gm == Update(global_metadata, Restrict(loc[t].metadata, {k}))
       IN  IF rest = <<>>
           THEN Step(t, "done", [loc[t] EXCEPT !.todo = rest, !.metadata = EmptyDict],
                     gm, heap, Release(t))
           ELSE Step(t, "add_update", [loc[t] EXCEPT !.todo = rest], gm, heap, t)

---------------------------------------------------------------------------
(* DataStorageBase.remove_global_metadata *)

\* lines 299-300
RemoveBegin(t, names) ==
    /\ Free(t)
    /\ Step(t, "remove_acquire", [Fresh(t) EXCEPT !.op = "remove", !.todo = names,
                                        !.keys = {names[i] : i \in 1..Len(names)}],
            global_metadata, heap, global_metadata_lock)

\* line 301
RemoveAcquire(t) ==
    /\ pc[t] = "remove_acquire"
    /\ global_metadata_lock = NoThread
    /\ Step(t, "remove_pop", loc[t], global_metadata, heap, t)

\* lines 302-303: one pop per name; the with block ends after the last
RemovePop(t) ==
    /\ pc[t] = "remove_pop"
    /\ LET rest == Tail(loc[t].todo)
           gm == Pop(global_metadata, Head(loc[t].todo))
       IN  IF rest = <<>>
           THEN Step(t, "done", [loc[t] EXCEPT !.todo = rest], gm, heap, Release(t))
           ELSE Step(t, "remove_pop", [loc[t] EXCEPT !.todo = rest], gm, heap, t)

---------------------------------------------------------------------------
(* DataStorageBase.get_global_metadata *)

\* line 264
GetBegin(t) ==
    /\ Free(t)
    /\ Step(t, "get_acquire", [Fresh(t) EXCEPT !.op = "get"],
            global_metadata, heap, global_metadata_lock)

\* a get_global_metadata that copies the registry without taking the lock
GetAcquireUnlocked(t) ==
    /\ pc[t] = "get_acquire"
    /\ Step(t, "get_copy", loc[t], global_metadata, heap, global_metadata_lock)

\* line 267
GetAcquire(t) ==
    /\ pc[t] = "get_acquire"
    /\ global_metadata_lock = NoThread
    /\ Step(t, "get_copy", loc[t], global_metadata, heap, t)

\* line 268: dict.copy is a shallow copy: the new dict refers to the same values
DictCopy(m) == m

\* line 268: the copy is returned and the with block ends
GetCopy(t) ==
    /\ pc[t] = "get_copy"
    /\ Step(t, "done", [loc[t] EXCEPT !.ret = DictCopy(global_metadata)],
            global_metadata, heap, Release(t))

---------------------------------------------------------------------------
(* What a caller does with the dict get_global_metadata returned *)

HoldsResult(t) == pc[t] = "done" /\ loc[t].op = "get"

\* the caller mutates a value of the returned dict in place: m[k].append(2)
CallerMutatesValue(t, k) ==
    /\ HoldsResult(t)
    /\ k \in DOMAIN loc[t].ret
    /\ LET c == loc[t].ret[k]
       IN  /\ heap[c].kind = "list"
           /\ Len(heap[c].v) < MaxListLen
           /\ Step(t, "done", loc[t], global_metadata,
                   [heap EXCEPT ![c] = ListVal(Append(heap[c].v, 2))],
                   global_metadata_lock)

\* the caller removes a key of the returned dict: del m[k]
CallerDeletesKey(t, k) ==
    /\ HoldsResult(t)
    /\ k \in DOMAIN loc[t].ret
    /\ Step(t, "done", [loc[t] EXCEPT !.ret = Pop(loc[t].ret, k)],
            global_metadata, heap, global_metadata_lock)

---------------------------------------------------------------------------
(* Strings *)

Whitespace == {" ", "\t"}

RECURSIVE LStrip(_)
LStrip(s) == IF s # <<>> /\ Head(s) \in Whitespace THEN LStrip(Tail(s)) ELSE s

RECURSIVE RStrip(_)
RStrip(s) ==
    IF s # <<>> /\ s[Len(s)] \in Whitespace THEN RStrip(SubSeq(s, 1, Len(s) - 1)) ELSE s

\* str.strip()
Strip(s) == LStrip(RStrip(s))

\* re.sub(r'[\s]+', '_', s): every run of whitespace becomes one underscore
RECURSIVE SubWhitespace(_)
SubWhitespace(s) ==
    IF s = <<>> THEN <<>>
    ELSE IF Head(s) \in Whitespace
         THEN <<"_">> \o SubWhitespace(LStrip(s))
         ELSE <<Head(s)>> \o SubWhitespace(Tail(s))

\* str.endswith
EndsWith(s, suffix) ==
    /\ Len(suffix) <= Len(s)
    /\ SubSeq(s, Len(s) - Len(suffix) + 1, Len(s)) = suffix

\* str.startswith
StartsWith(s, prefix) == Len(prefix) <= Len(s) /\ SubSeq(s, 1, Len(prefix)) = prefix

\* s.rsplit('.', 1)[0]: s up to its last dot, all of s when it holds none
RSplitDot(s) ==
    IF \E i \in 1..Len(s) : s[i] = "."
    THEN LET i == CHOOSE j \in 1..Len(s) : s[j] = "." /\ \A l \in (j + 1)..Len(s) : s[l] # "."
         IN  SubSeq(s, 1, i - 1)
    ELSE s

\* sep.join(parts) for a tuple of one-token parts
RECURSIVE Join(_, _)
Join(sep, parts) ==
    IF parts = <<>> THEN <<>>
    ELSE IF Len(parts) = 1 THEN <<Head(parts)>>
    ELSE <<Head(parts), sep>> \o Join(sep, Tail(parts))

---------------------------------------------------------------------------
(* Timestamps and file names *)

\* a datetime, with what its two strftime formats give
Timestamps ==
    { [name |-> "20210130-1130-59", title |-> "30.01.2021 at 11h30m59s", usec |-> 0],
      [name |-> "20210130-1130-59", title |-> "30.01.2021 at 11h30m59s", usec |-> 1],
      [name |-> "20210131-0000-00", title |-> "31.01.2021 at 00h00m00s", usec |-> 0] }

\* get_timestamp_filename, lines 93-111
get_timestamp_filename(timestamp, nametag) ==
    LET datetime_str == <<timestamp.name>>
        tag == IF nametag # NONE /\ nametag # <<>>
               THEN SubWhitespace(Strip(nametag))
               ELSE nametag
    IN  IF tag # NONE /\ tag # <<>> THEN datetime_str \o <<"_">> \o tag ELSE datetime_str


---------------------------------------------------------------------------
(* Construction of a storage instance *)

\* DataStorageBase.__init__, lines 149-154
NormalizeExtension(file_extension) ==
    IF file_extension = NONE \/ file_extension = <<>> THEN NONE
    ELSE IF StartsWith(file_extension, <<".">>) THEN file_extension
    ELSE <<".">> \o file_extension

\* TextDataStorage.__init__, lines 330-337, and NpyDataStorage.__init__, lines 551-558;
\* a str column header is <<"str", s>>, a tuple of names <<"names", n1, n2, ...>>
NormalizeColumnHeaders(column_headers) ==
    IF column_headers = NONE \/ column_headers = <<>> THEN NONE ELSE column_headers

IsStrHeader(column_headers) ==
    column_headers # NONE /\ column_headers[1] = "str"

\* the instance after __init__: kw holds the keyword arguments of the call.
\* CsvDataStorage.__init__ (line 521) fixes the delimiter, NpyDataStorage.__init__
\* (line 549) the file extension. The attribute create_file_path is looked up on
\* the instance by its callers (lines 215, 407, 617) and defined by no class of
\* the module (lines 180-200 are commented out): "undefined".
Construct(class, kw) ==
    [ class |-> class,
      file_extension |-> IF class = "NpyDataStorage"
                         THEN NormalizeExtension(<<".", "n", "p", "y">>)
                         ELSE NormalizeExtension(kw.file_extension),
      include_global_metadata |-> kw.include_global_metadata,
      column_headers |-> NormalizeColumnHeaders(kw.column_headers),
      number_format |-> "%.18e",
      comments |-> kw.comments,
      delimiter |-> IF class = "CsvDataStorage" THEN "," ELSE kw.delimiter,
      current_data_file |-> NONE,
      create_file_path |-> "undefined" ]

IsText(s) == s.class \in {"TextDataStorage", "CsvDataStorage"}

---------------------------------------------------------------------------
(* Headers *)

\* lines 369-374 and 585-590: one line of the Metadata section
MetadataLine(param, value) ==
    IF value.kind = "float" THEN <<param, ": ", ToString(value.v[1]), ".000000000000000000e+00">>
    ELSE IF value.kind = "int" THEN <<param, ": ", ToString(value.v[1])>>
    ELSE <<param, ": ", "[">> \o [i \in 1..Len(value.v) |-> ToString(value.v[i])] \o <<"]">>

\* lines 365-375 and 581-591: the Metadata section, a line per key
MetadataLines(all_metadata) ==
    IF DOMAIN all_metadata = {} THEN <<>>
    ELSE <<<<"Metadata:">>, <<"=========">>>>
         \o [i \in 1..Len(KeySeq(DOMAIN all_metadata)) |->
                MetadataLine(KeySeq(DOMAIN all_metadata)[i],
                             all_metadata[KeySeq(DOMAIN all_metadata)[i]])]
         \o << <<>> >>

\* lines 361-363: notes.splitlines() and an empty line
NotesLines(notes) ==
    IF notes = NONE \/ notes = <<>> THEN <<>>
    ELSE [i \in 1..Len(notes) |-> <<notes[i]>>] \o << <<>> >>

\* lines 379-383 (the names joined by delimiter) and 595-599 (joined by ', ')
ColumnHeaderLines(column_headers, delimiter) ==
    IF column_headers = NONE THEN <<>>
    ELSE IF IsStrHeader(column_headers) THEN << <<column_headers[2]>> >>
    ELSE << Join(delimiter, Tail(column_headers)) >>

\* a merge in which the global metadata win over the metadata of the call
AllMetadataGlobalFirst(s, gm, metadata) ==
    Update(IF metadata = NONE THEN EmptyDict ELSE metadata[2],
           IF s.include_global_metadata THEN gm ELSE EmptyDict)

\* lines 353-355 and 567-569: the global metadata (a copy made under the lock),
\* updated with the metadata of the call; gm is what get_global_metadata returns
AllMetadata(s, gm, metadata) ==
    Update(IF s.include_global_metadata THEN gm ELSE EmptyDict,
           IF metadata = NONE THEN EmptyDict ELSE metadata[2])

\* lines 385-388: every line is prefixed by comments, when set
Commented(comments, lines) ==
    [i \in 1..Len(lines) |-> IF comments = NONE THEN lines[i] ELSE comments \o lines[i]]

\* TextDataStorage.create_header, lines 347-388: the header as its lines
TextCreateHeader(s, gm, metadata, notes, timestamp, include_column_headers) ==
    Commented(s.comments,
              << <<"Saved Data on ", timestamp.title>>, <<>> >>
              \o NotesLines(notes)
              \o MetadataLines(AllMetadata(s, gm, metadata))
              \o << <<"Data:">>, <<"=====">> >>
              \o (IF include_column_headers
                  THEN ColumnHeaderLines(s.column_headers, s.delimiter)
                  ELSE <<>>))

\* CsvDataStorage.create_header, lines 524-535
CsvCreateHeader(s, gm, metadata, notes, timestamp) ==
    IF IsStrHeader(s.column_headers)
    THEN TextCreateHeader(s, gm, metadata, notes, timestamp, TRUE)
    ELSE TextCreateHeader(s, gm, metadata, notes, timestamp, FALSE)
         \o (IF s.column_headers # NONE
             THEN << Join(",", Tail(s.column_headers)) >>
             ELSE <<>>)

\* NpyDataStorage.create_header, lines 560-601; the title line is an f-string
\* whose {0} is evaluated before format is applied
NpyCreateHeader(s, gm, metadata, notes, timestamp) ==
    << <<"Saved Data on ", "0">>, <<>> >>
    \o NotesLines(notes)
    \o MetadataLines(AllMetadata(s, gm, metadata))
    \o << <<"Column headers:">>, <<"===============">> >>
    \o ColumnHeaderLines(s.column_headers, ", ")

\* self.create_header(metadata=..., notes=..., timestamp=...) as the class of self defines it
create_header(s, gm, metadata, notes, timestamp) ==
    IF s.class = "TextDataStorage" THEN TextCreateHeader(s, gm, metadata, notes, timestamp, TRUE)
    ELSE IF s.class = "CsvDataStorage" THEN CsvCreateHeader(s, gm, metadata, notes, timestamp)
    ELSE NpyCreateHeader(s, gm, metadata, notes, timestamp)


---------------------------------------------------------------------------
(* Arrays and files *)

\* a numpy array: ndim, shape, and its numbers as rows (a 1-D array is one row)
Array1(v) == [ndim |-> 1, shape |-> <<Len(v)>>, rows |-> <<v>>]
Array2(rows) == [ndim |-> 2, shape |-> <<Len(rows), Len(rows[1])>>, rows |-> rows]
Array3(rows) == [ndim |-> 3, shape |-> <<1, Len(rows), Len(rows[1])>>, rows |-> rows]
NoArray == [ndim |-> 0, shape |-> <<>>, rows |-> <<>>]

\* np.expand_dims(data, axis=0) of a 1-D array, line 436
ExpandDims(data) == [ndim |-> 2, shape |-> <<1>> \o data.shape, rows |-> data.rows]

\* a file: the lines written as text (header lines, then data rows), or the array
\* written by np.save
TextFile(header, rows) == [header |-> header, rows |-> rows, array |-> NoArray]
NpyFile(data) == [header |-> <<>>, rows |-> <<>>, array |-> data]

NoFiles == [p \in {} |-> TextFile(<<>>, <<>>)]

\* os.path.isfile
IsFile(files, path) == path \in DOMAIN files

\* open(path, 'w') or open(path, 'wb'), then one write
WriteFile(files, path, content) ==
    [p \in DOMAIN files \cup {path} |-> IF p = path THEN content ELSE files[p]]

\* np.savetxt(file, X, delimiter=..., fmt=...), lines 435-440: a line per row of X,
\* its numbers formatted by fmt and joined by delimiter
SaveTxtRows(s, X) ==
    [i \in 1..Len(X.rows) |->
        Join(s.delimiter, [j \in 1..Len(X.rows[i]) |-> <<s.number_format, X.rows[i][j]>>])]

\* lines 434-440: the rows np.savetxt writes for data, a 1-D array being one row
RowsWritten(s, data) == SaveTxtRows(s, IF data.ndim = 1 THEN ExpandDims(data) ELSE data)

\* open(path, 'w') in the place of open(path, 'a'): the rows replace the file
AppendRowsTruncating(files, path, rows) == WriteFile(files, path, TextFile(<<>>, rows))

\* open(path, 'a'), then the rows written at the end of the file; a path without
\* file is a new file
AppendRows(files, path, rows) ==
    WriteFile(files, path,
              IF IsFile(files, path) THEN [files[path] EXCEPT !.rows = @ \o rows]
              ELSE TextFile(<<>>, rows))

---------------------------------------------------------------------------
(* Results of a call: ok with what is returned, or the exception raised *)

NoShape == <<>>

Result(err, path, timestamp, shape) ==
    [err |-> err, path |-> path, timestamp |-> timestamp, shape |-> shape]

NoTimestamp == [name |-> "", title |-> "", usec |-> 0]

Raised(err) == Result(err, NONE, NoTimestamp, NoShape)

\* the outcome of an operation: its result, the files and the instance after it, and
\* the path of the file new_data_file has created in it (NONE: it created none)
Outcome(res, files, s, created) == [res |-> res, fs |-> files, self |-> s, created |-> created]


---------------------------------------------------------------------------
(* The path of a data file *)

\* create_file_path with the directory left out: the file name chosen and the
\* extension added to it
create_file_path(s, timestamp, filename, nametag) ==
    LET name == IF filename = NONE THEN get_timestamp_filename(timestamp, nametag)
                ELSE filename
    IN  IF s.file_extension # NONE /\ ~EndsWith(name, s.file_extension)
        THEN name \o s.file_extension
        ELSE name

---------------------------------------------------------------------------
(* TextDataStorage: new_data_file, append_data_file, save_data *)

\* the arguments of new_data_file and save_data; fault is the number of the
\* open() of the call that fails with an OSError, 0 when none does
Arguments(metadata, notes, filename, nametag, timestamp, fault) ==
    [metadata |-> metadata, notes |-> notes, filename |-> filename, nametag |-> nametag,
     timestamp |-> timestamp, fault |-> fault]

\* a new_data_file that does not remember the file it created
SetCurrentDataFileForgotten(s, file_path) == s

\* line 412
SetCurrentDataFile(s, file_path) == [s EXCEPT !.current_data_file = file_path]

\* lines 403-413. Line 407 looks create_file_path up on the instance.
new_data_file(s, files, gm, a) ==
    IF s.create_file_path = "undefined"
    THEN Outcome(Raised("AttributeError"), files, s, NONE)
    ELSE LET file_path == create_file_path(s, a.timestamp, a.filename, a.nametag)
             header == create_header(s, gm, a.metadata, a.notes, a.timestamp)
         IN  IF a.fault = 1 THEN Outcome(Raised("OSError"), files, s, NONE)
             ELSE Outcome(Result("ok", file_path, a.timestamp, NoShape),
                          WriteFile(files, file_path, TextFile(header, <<>>)),
                          SetCurrentDataFile(s, file_path), file_path)

\* a check that lets open(file_path, 'a') create a file that is not there
NoOpenFileUnlessPath(files, file_path) == file_path = NONE

\* line 428
NoOpenFile(files, file_path) == file_path = NONE \/ ~IsFile(files, file_path)

\* lines 425-441; open_fails: the open() of line 432 fails with an OSError.
\* np.savetxt raises a ValueError for an array that is neither 1-D nor 2-D.
append_data_file(s, files, data, file_path_arg, open_fails) ==
    LET file_path == IF file_path_arg = NONE THEN s.current_data_file ELSE file_path_arg
    IN  IF NoOpenFile(files, file_path)
        THEN Outcome(Raised("FileNotFoundError"), files, s, NONE)
        ELSE IF open_fails THEN Outcome(Raised("OSError"), files, s, NONE)
        ELSE IF data.ndim = 1
        THEN Outcome(Result("ok", NONE, NoTimestamp, <<1, data.shape[1]>>),
                     AppendRows(files, file_path, SaveTxtRows(s, ExpandDims(data))), s, NONE)
        ELSE IF data.ndim = 2
        THEN Outcome(Result("ok", NONE, NoTimestamp, data.shape),
                     AppendRows(files, file_path, SaveTxtRows(s, data)), s, NONE)
        ELSE Outcome(Raised("ValueError"), files, s, NONE)

\* a save_data that returns the shape of the array it was given
TextSaveDataShapeOfData(s, files, gm, data, a) ==
    LET created == new_data_file(s, files, gm, a)
    IN  IF created.res.err # "ok" THEN created
        ELSE LET appended == append_data_file(created.self, created.fs, data, NONE,
                                              a.fault = 2)
             IN  IF appended.res.err # "ok"
                 THEN Outcome(appended.res, appended.fs, appended.self, created.created)
                 ELSE Outcome(Result("ok", created.res.path, created.res.timestamp, data.shape),
                              appended.fs, appended.self, created.created)

\* TextDataStorage.save_data, lines 448-455
TextSaveData(s, files, gm, data, a) ==
    LET created == new_data_file(s, files, gm, a)
    IN  IF created.res.err # "ok" THEN created
        ELSE LET appended == append_data_file(created.self, created.fs, data, NONE,
                                              a.fault = 2)
             IN  IF appended.res.err # "ok"
                 THEN Outcome(appended.res, appended.fs, appended.self, created.created)
                 ELSE Outcome(Result("ok", created.res.path, created.res.timestamp,
                                     appended.res.shape),
                              appended.fs, appended.self, created.created)

---------------------------------------------------------------------------
(* NpyDataStorage.save_data *)

\* line 624
ParamFilePath(file_path) == RSplitDot(file_path) \o <<"_metadata.txt">>

\* lines 612-630. np.save writes an array of any number of dimensions.
NpySaveData(s, files, gm, data, a) ==
    IF s.create_file_path = "undefined"
    THEN Outcome(Raised("AttributeError"), files, s, NONE)
    ELSE LET file_path == create_file_path(s, a.timestamp, a.filename, a.nametag)
             written == WriteFile(files, file_path, NpyFile(data))
             header == create_header(s, gm, a.metadata, a.notes, a.timestamp)
         IN  IF a.fault = 1 THEN Outcome(Raised("OSError"), files, s, NONE)
             ELSE IF a.fault = 2 THEN Outcome(Raised("OSError"), written, s, NONE)
             ELSE Outcome(Result("ok", file_path, a.timestamp, data.shape),
                          WriteFile(written, ParamFilePath(file_path), TextFile(header, <<>>)),
                          s, NONE)

\* self.save_data as the class of self defines it
save_data(s, files, gm, data, a) ==
    IF IsText(s) THEN TextSaveData(s, files, gm, data, a) ELSE NpySaveData(s, files, gm, data, a)


---------------------------------------------------------------------------
(* Inputs of the calls on the storage instance *)

Row(n) == [j \in 1..n |-> j - 1]

DataInputs ==
    {Array1(Row(n)) : n \in 1..MaxColumns}
    \cup {Array2(<<Row(MaxColumns), Row(MaxColumns)>>), Array3(<<Row(MaxColumns)>>)}

\* metadata, notes, filename, nametag and timestamp of a call
CallInputs ==
    { [metadata |-> NONE, notes |-> NONE, filename |-> NONE, nametag |-> NONE,
       usec |-> 0, name |-> "20210130-1130-59"],
      [metadata |-> <<"dict", [k \in {"a"} |-> IntVal(5)]>>, notes |-> <<"note">>,
       filename |-> NONE, nametag |-> <<" ", "r", " ", "\t", "s">>,
       usec |-> 1, name |-> "20210130-1130-59"],
      [metadata |-> <<"dict", [k \in {"b"} |-> IntVal(5)]>>, notes |-> NONE,
       filename |-> NONE, nametag |-> <<"r">>,
       usec |-> 0, name |-> "20210131-0000-00"],
      [metadata |-> NONE, notes |-> <<"note">>, filename |-> <<"o">>, nametag |-> <<"r">>,
       usec |-> 0, name |-> "20210130-1130-59"] }

TimestampOf(n) == CHOOSE ts \in Timestamps : ts.name = n.name /\ ts.usec = n.usec

Faults == 0..2

\* file_path of an append_data_file call: None, the file another program left, or
\* a path without file
AppendPaths == {NONE, <<"o">>, <<"m">>}

\* the keyword arguments of the constructor calls considered
Constructions ==
    { <<"TextDataStorage",
        [file_extension |-> NONE, include_global_metadata |-> TRUE,
         column_headers |-> <<"names", "x", "y">>, comments |-> <<"# ">>, delimiter |-> "\t"]>>,
      <<"TextDataStorage",
        [file_extension |-> <<".", "d">>, include_global_metadata |-> FALSE,
         column_headers |-> <<"str", "x y">>, comments |-> NONE, delimiter |-> ";"]>>,
      <<"CsvDataStorage",
        [file_extension |-> <<"c">>, include_global_metadata |-> TRUE,
         column_headers |-> <<"names", "x", "y">>, comments |-> <<"# ">>, delimiter |-> "\t"]>>,
      <<"NpyDataStorage",
        [file_extension |-> NONE, include_global_metadata |-> TRUE,
         column_headers |-> <<"names", "x", "y">>, comments |-> NONE, delimiter |-> "\t"]>> }

\* a file some other program left in the directory
ForeignFile == TextFile(<< <<"old">> >>, <<>>)

NoCall ==
    [op |-> "none", n |-> 0, args |-> Arguments(NONE, NONE, NONE, NONE, NoTimestamp, 0),
     data |-> NoArray, file_path |-> NONE, res |-> Raised("none"), last_created |-> NONE,
     returned |-> NONE]

---------------------------------------------------------------------------
(* The calls on the storage instance, each a whole call *)

\* what get_global_metadata returns to create_header
GlobalView == View(heap, global_metadata)

RowsOf(files) == {Len(files[p].rows) : p \in DOMAIN files}

Finish(op, a, data, file_path, out) ==
    /\ call.n < MaxCalls
    /\ \A n \in RowsOf(out.fs) : n <= MaxRows
    /\ call' = [op |-> op, n |-> call.n + 1, args |-> a, data |-> data,
                file_path |-> file_path, res |-> out.res,
                last_created |-> IF out.created # NONE THEN out.created
                                 ELSE call.last_created,
                returned |-> NONE]
    /\ fs' = out.fs
    /\ self' = out.self
    /\ UNCHANGED registryVars
    /\ UNCHANGED fitVars

NewDataFile(n, fault) ==
    /\ IsText(self)
    /\ fault < 2
    /\ LET a == Arguments(n.metadata, n.notes, n.filename, n.nametag, TimestampOf(n), fault)
       IN  Finish("new_data_file", a, NoArray, NONE, new_data_file(self, fs, GlobalView, a))

AppendDataFile(data, file_path, fault) ==
    /\ IsText(self)
    /\ fault < 2
    /\ Finish("append_data_file", [NoCall.args EXCEPT !.fault = fault], data, file_path,
              append_data_file(self, fs, data, file_path, fault = 1))

SaveData(data, n, fault) ==
    LET a == Arguments(n.metadata, n.notes, n.filename, n.nametag, TimestampOf(n), fault)
    IN  Finish("save_data", a, data, NONE, save_data(self, fs, GlobalView, data, a))

\* load_data of the three classes, lines 457-462, 537-542 and 632-637
load_data(s, files, file_path) == Outcome(Raised("NotImplementedError"), files, s, NONE)

LoadData(file_path) ==
    Finish("load_data", NoCall.args, NoArray, file_path, load_data(self, fs, file_path))

\* another program deletes a file of the directory
DeleteFile(path) ==
    /\ call.n < MaxCalls
    /\ path \in DOMAIN fs
    /\ fs' = [p \in DOMAIN fs \ {path} |-> fs[p]]
    /\ UNCHANGED <<self, call>>
    /\ UNCHANGED registryVars
    /\ UNCHANGED fitVars

---------------------------------------------------------------------------
(* save_data statement by statement, for threads that share the instance *)

\* a step of thread t in save_data: its locals lc, the files, the instance and the
\* lock after it
SaveStep(t, label, lc, files, s, lk) ==
    /\ pc' = [pc EXCEPT ![t] = label]
    /\ loc' = [loc EXCEPT ![t] = lc]
    /\ fs' = files
    /\ self' = s
    /\ global_metadata_lock' = lk
    /\ heap' = Collect(heap, global_metadata, [loc EXCEPT ![t] = lc])
    /\ UNCHANGED <<global_metadata, committed, call>>
    /\ UNCHANGED fitVars

\* the call returns res, or raises it
SaveReturn(t, res, files) ==
    SaveStep(t, "done", [loc[t] EXCEPT !.frame.res = res, !.err = res.err], files, self,
             global_metadata_lock)

\* the file name a thread saves to: each thread its own
ThreadFile(t) == <<"t", ToString(t)>>

\* the data a thread saves: a 1-D array of t numbers, or a 3-D array
ThreadData(t) == {Array1(Row(t)), Array3(<<Row(t)>>)}

\* the timestamp of the save_data calls of the threads
ThreadTimestamp == CHOOSE ts \in Timestamps : ts.usec = 1

\* save_data(data, filename=..., timestamp=...) up to the result of
\* create_file_path: lines 448-452 and 403-407, lines 613-617 for NpyDataStorage
SaveBegin(t, data) ==
    /\ Free(t)
    /\ LET lc == [Fresh(t) EXCEPT !.op = "save_data", !.frame.data = data,
                                  !.frame.filename = ThreadFile(t),
                                  !.frame.timestamp = ThreadTimestamp]
       IN  IF self.create_file_path = "undefined"
           THEN SaveStep(t, "done", [lc EXCEPT !.frame.res = Raised("AttributeError"),
                                               !.err = "AttributeError"],
                         fs, self, global_metadata_lock)
           ELSE SaveStep(t, IF IsText(self) THEN "create_header" ELSE "npy_open",
                         [lc EXCEPT !.frame.file_path
                                       = create_file_path(self, ThreadTimestamp,
                                                          ThreadFile(t), NONE)],
                         fs, self, global_metadata_lock)

\* create_header up to get_global_metadata, lines 353 and 567: without global
\* metadata the header is put together from the metadata of the call
HeaderBegin(t) ==
    /\ pc[t] = "create_header"
    /\ IF self.include_global_metadata
       THEN SaveStep(t, "header_acquire", loc[t], fs, self, global_metadata_lock)
       ELSE SaveStep(t, "open_w",
                     [loc[t] EXCEPT !.frame.header
                                       = create_header(self, EmptyDict, loc[t].frame.metadata,
                                                       loc[t].frame.notes,
                                                       loc[t].frame.timestamp)],
                     fs, self, global_metadata_lock)

\* line 267, called from create_header
HeaderAcquire(t) ==
    /\ pc[t] = "header_acquire"
    /\ global_metadata_lock = NoThread
    /\ SaveStep(t, "header_copy", loc[t], fs, self, t)

\* a get_global_metadata whose with block does not end when the copy is returned
HeaderCopyHoldingLock(t) ==
    /\ pc[t] = "header_copy"
    /\ SaveStep(t, "open_w",
                [loc[t] EXCEPT !.frame.header
                                  = create_header(self, View(heap, DictCopy(global_metadata)),
                                                  loc[t].frame.metadata, loc[t].frame.notes,
                                                  loc[t].frame.timestamp)],
                fs, self, global_metadata_lock)

\* line 268, the with block ends; then the rest of create_header, lines 354-388
\* and 568-601, works on the copy
HeaderCopy(t) ==
    /\ pc[t] = "header_copy"
    /\ SaveStep(t, "open_w",
                [loc[t] EXCEPT !.frame.header
                                  = create_header(self, View(heap, DictCopy(global_metadata)),
                                                  loc[t].frame.metadata, loc[t].frame.notes,
                                                  loc[t].frame.timestamp)],
                fs, self, Release(t))

\* the file the header is written to: the data file of a text storage, the file
\* <base>_metadata.txt of an NpyDataStorage (line 624)
HeaderPath(s, file_path) == IF IsText(s) THEN file_path ELSE ParamFilePath(file_path)

\* lines 410 and 627: open(..., 'w') leaves an empty file
OpenWrite(t) ==
    /\ pc[t] = "open_w"
    /\ SaveStep(t, "write_header", loc[t],
                WriteFile(fs, HeaderPath(self, loc[t].frame.file_path), TextFile(<<>>, <<>>)),
                self, global_metadata_lock)

\* lines 411 and 628: the header is written and the file closed; save_data of an
\* NpyDataStorage returns (line 630)
WriteHeader(t) ==
    /\ pc[t] = "write_header"
    /\ LET path == HeaderPath(self, loc[t].frame.file_path)
           files == IF IsFile(fs, path)
                    THEN [fs EXCEPT ![path].header = @ \o loc[t].frame.header]
                    ELSE fs
       IN  IF IsText(self)
           THEN SaveStep(t, "set_current", loc[t], files, self, global_metadata_lock)
           ELSE SaveReturn(t, Result("ok", loc[t].frame.file_path, loc[t].frame.timestamp,
                                     loc[t].frame.data.shape),
                           files)

\* line 412, and new_data_file returns to save_data (lines 413 and 448)
SetCurrent(t) ==
    /\ pc[t] = "set_current"
    /\ SaveStep(t, "append_check", loc[t], fs,
                SetCurrentDataFile(self, loc[t].frame.file_path), global_metadata_lock)

\* append_data_file(data), lines 425-432: the remembered file is read from the
\* instance and opened for appending
AppendCheck(t) ==
    /\ pc[t] = "append_check"
    /\ IF NoOpenFile(fs, self.current_data_file)
       THEN SaveReturn(t, Raised("FileNotFoundError"), fs)
       ELSE SaveStep(t, "write_rows", [loc[t] EXCEPT !.frame.target = self.current_data_file],
                     fs, self, global_metadata_lock)

\* lines 434-441, and save_data returns (line 455)
WriteRows(t) ==
    /\ pc[t] = "write_rows"
    /\ IF loc[t].frame.data.ndim > 2
       THEN SaveReturn(t, Raised("ValueError"), fs)
       ELSE SaveReturn(t, Result("ok", loc[t].frame.file_path, loc[t].frame.timestamp,
                                 IF loc[t].frame.data.ndim = 1
                                 THEN <<1, loc[t].frame.data.shape[1]>>
                                 ELSE loc[t].frame.data.shape),
                       AppendRows(fs, loc[t].frame.target,
                                  SaveTxtRows(self, IF loc[t].frame.data.ndim = 1
                                                    THEN ExpandDims(loc[t].frame.data)
                                                    ELSE loc[t].frame.data)))

\* line 619 of NpyDataStorage.save_data: open(file_path, 'wb')
NpyOpen(t) ==
    /\ pc[t] = "npy_open"
    /\ SaveStep(t, "npy_save", loc[t], WriteFile(fs, loc[t].frame.file_path, NpyFile(NoArray)),
                self, global_metadata_lock)

\* lines 620-621: np.save and the end of the with block; then create_header, line 625
NpySave(t) ==
    /\ pc[t] = "npy_save"
    /\ SaveStep(t, "create_header", loc[t],
                WriteFile(fs, loc[t].frame.file_path, NpyFile(loc[t].frame.data)),
                self, global_metadata_lock)

\* the statements at which a thread opens, writes or closes a file
FileLabels == {"open_w", "write_header", "append_check", "write_rows", "npy_open", "npy_save"}

---------------------------------------------------------------------------
(* Calls that touch no file: create_header and get_timestamp_filename *)

\* the nametag argument of get_timestamp_filename
NameTags == {NONE, <<>>, <<" ">>, <<"\t", " ">>, <<"r">>, <<" ", "r", " ", "\t", "s">>}

\* a call that returns a value and leaves the instance and the files alone
Returns(op, a, value) ==
    /\ call.n < MaxCalls
    /\ call' = [call EXCEPT !.op = op, !.n = @ + 1, !.args = a, !.data = NoArray,
                             !.file_path = NONE, !.res = Result("ok", NONE, a.timestamp, NoShape),
                             !.returned = value]
    /\ UNCHANGED <<self, fs>>
    /\ UNCHANGED registryVars
    /\ UNCHANGED fitVars

\* self.create_header(metadata=..., notes=..., timestamp=...)
CreateHeader(n) ==
    LET a == Arguments(n.metadata, n.notes, NONE, NONE, TimestampOf(n), 0)
    IN  Returns("create_header", a,
                create_header(self, GlobalView, a.metadata, a.notes, a.timestamp))

\* get_timestamp_filename(timestamp, nametag)
GetTimestampFilename(timestamp, nametag) ==
    Returns("get_timestamp_filename", Arguments(NONE, NONE, NONE, nametag, timestamp, 0),
            get_timestamp_filename(timestamp, nametag))

---------------------------------------------------------------------------
(* datafitting.py: FitConfiguration and FitConfigurationsModel *)

\* line 38: the names of the fit models of qudi.core.fit_models
FitModels == {"Gaussian"}

\* the name and model arguments of the calls
FitNames == {"c", "d", "e", "", "No Fit"}
FitModelArguments == FitModels \cup {"Unknown"}

\* FitConfiguration.__init__, lines 45-49: the assert statements
FitConfigurationAsserts(name, model) ==
    /\ name # ""
    /\ model \in FitModels
    /\ name # "No Fit"

\* FitConfiguration(name, model), lines 51-56
FitConfiguration(name, model) == [name |-> name, model |-> model]

\* line 126: configuration_names
configuration_names(configurations) ==
    [i \in 1..Len(configurations) |-> configurations[i].name]

NoFitCall == [op |-> "none", n |-> 0, name |-> "", model |-> "", err |-> "none",
              emitted |-> <<>>]

\* the locals of a fit_data or last_fit call: the fit_config argument, the result
\* of the fit, the value returned and the exception raised
IdleFitLoc ==
    [op |-> "none", n |-> 0, fit_config |-> "", result |-> NONE, ret |-> NONE,
     err |-> "none"]

\* FitContainer.__init__, lines 218-221
NoFitContainer ==
    /\ last_fit_config = "No Fit"
    /\ last_fit_result = NONE
    /\ access_lock = NoThread
    /\ fit_pc = [t \in Threads |-> "idle"]
    /\ fit_loc = [t \in Threads |-> IdleFitLoc]
    /\ fit_signals = <<>>

\* no FitConfigurationsModel is part of the run
NoFitModel == fit_configurations = <<>> /\ fit_call = NoFitCall /\ NoFitContainer

\* a call on the model: the list after it, the exception it raised and the
\* sigFitConfigurationsChanged signals it emitted
FitReturns(op, name, model, configurations, err, emitted) ==
    /\ fit_call.n < MaxFitCalls
    /\ fit_configurations' = configurations
    /\ fit_call' = [op |-> op, n |-> fit_call.n + 1, name |-> name, model |-> model,
                    err |-> err, emitted |-> emitted]
    /\ UNCHANGED registryVars
    /\ UNCHANGED storageVars
    /\ UNCHANGED containerVars

\* add_configuration, lines 132-142
AddConfiguration(name, model) ==
    IF \/ \E i \in 1..Len(fit_configurations) : fit_configurations[i].name = name
       \/ name = "No Fit"
       \/ ~FitConfigurationAsserts(name, model)
    THEN FitReturns("add_configuration", name, model, fit_configurations,
                    "AssertionError", <<>>)
    ELSE LET configurations == Append(fit_configurations, FitConfiguration(name, model))
         IN  FitReturns("add_configuration", name, model, configurations, "ok",
                        << configuration_names(configurations) >>)

\* the list without its element at row_index
PopRow(configurations, row_index) ==
    SubSeq(configurations, 1, row_index - 1)
    \o SubSeq(configurations, row_index + 1, Len(configurations))

\* remove_configuration, lines 144-152: tuple.index gives the first row of the name
RemoveConfiguration(name) ==
    LET names == configuration_names(fit_configurations)
    IN  IF \A i \in 1..Len(names) : names[i] # name
        THEN FitReturns("remove_configuration", name, "", fit_configurations, "ok", <<>>)
        ELSE LET row_index == CHOOSE i \in 1..Len(names) :
                                  names[i] = name /\ \A j \in 1..(i - 1) : names[j] # name
                 configurations == PopRow(fit_configurations, row_index)
             IN  FitReturns("remove_configuration", name, "", configurations, "ok",
                            << configuration_names(configurations) >>)

\* the lists of FitConfiguration objects a FitConfigurationsModel is constructed
\* with (lines 107-110): each element has passed the asserts of FitConfiguration
InitialConfigurations ==
    UNION { [1..n -> {FitConfiguration(name, model) :
                         name \in {m \in FitNames : FitConfigurationAsserts(m, "Gaussian")},
                         model \in FitModels}]
            : n \in 0..MaxInitialConfigurations }

---------------------------------------------------------------------------
(* datafitting.py: FitContainer.fit_data and FitContainer.last_fit *)

\* a configuration of the model the container was constructed with. config.model
\* (lines 59-60) is what FitConfiguration was given as model, a key of _fit_models
\* (line 47): provides tells whether that object has the attributes make_params,
\* estimators and fit that lines 254-259 look up on it; the name of a fit model,
\* a str, has none of them
ContainerConfiguration(name, estimator, provides) ==
    [name |-> name, model |-> "Gaussian", estimator |-> estimator, provides |-> provides]

ContainerConfigurations ==
    << ContainerConfiguration("c", NONE, FALSE),
       ContainerConfiguration("d", NONE, TRUE),
       ContainerConfiguration("e", <<"estimator">>, TRUE) >>

\* the fit_config argument of fit_data: no name, the reserved name, the names of
\* the configurations, and a name without configuration
FitConfigArguments == {"", "No Fit", "c", "d", "e", "x"}

\* what the calls into the fit model do (lines 254, 256 and 259): each returns or
\* raises
FitOutcomes == {"ok", "estimator raises", "fit raises"}

\* the lmfit.ModelResult of a fit with the configuration fit_config
ModelResult(fit_config) == <<"ModelResult", fit_config>>

FitFree(t) == fit_pc[t] \in {"idle", "done"} /\ fit_loc[t].n < MaxThreadCalls

\* the end of the with block of thread t
FitRelease(t) == IF access_lock = t THEN NoThread ELSE access_lock

\* a step of thread t in fit_data or last_fit
FitStep(t, label, lc, config, result, lk, signals) ==
    /\ fit_pc' = [fit_pc EXCEPT ![t] = label]
    /\ fit_loc' = [fit_loc EXCEPT ![t] = lc]
    /\ last_fit_config' = config
    /\ last_fit_result' = result
    /\ access_lock' = lk
    /\ fit_signals' = signals
    /\ UNCHANGED <<fit_configurations, fit_call>>
    /\ UNCHANGED registryVars
    /\ UNCHANGED storageVars

\* the call raises err, or returns ret: the with block ends
FitDone(t, err, ret, signals) ==
    FitStep(t, "done", [fit_loc[t] EXCEPT !.err = err, !.ret = ret],
            last_fit_config, last_fit_result, FitRelease(t), signals)

\* fit_data(fit_config, x, data) is called, line 241
FitDataBegin(t, fit_config) ==
    /\ FitFree(t)
    /\ FitStep(t, "fit_acquire",
               [IdleFitLoc EXCEPT !.op = "fit_data", !.n = fit_loc[t].n + 1,
                                  !.fit_config = fit_config],
               last_fit_config, last_fit_result, access_lock, fit_signals)

\* line 242
FitDataAcquire(t) ==
    /\ fit_pc[t] = "fit_acquire"
    /\ access_lock = NoThread
    /\ FitStep(t, "fit_lookup", fit_loc[t], last_fit_config, last_fit_result, t, fit_signals)

\* get_configuration_by_name, lines 154-159
HasConfiguration(configurations, name) ==
    \E i \in 1..Len(configurations) : configurations[i].name = name

get_configuration_by_name(configurations, name) ==
    configurations[CHOOSE i \in 1..Len(configurations) :
                      configurations[i].name = name
                      /\ \A j \in 1..(i - 1) : configurations[j].name # name]

\* lines 243-258 and the call of model.fit of line 259. An empty name returns
\* ('', None) (line 263); a name without configuration raises the ValueError of
\* line 158; make_params, estimators and fit are looked up on config.model
FitDataLookup(t, outcome) ==
    /\ fit_pc[t] = "fit_lookup"
    /\ LET fit_config == fit_loc[t].fit_config
       IN  IF fit_config = ""
           THEN outcome = "ok" /\ FitDone(t, "none", <<"", NONE>>, fit_signals)
           ELSE IF fit_config = "No Fit"
           THEN /\ outcome = "ok"
                /\ FitStep(t, "set_result", fit_loc[t], last_fit_config, last_fit_result,
                           access_lock, fit_signals)
           ELSE IF ~HasConfiguration(fit_configurations, fit_config)
           THEN outcome = "ok" /\ FitDone(t, "ValueError", NONE, fit_signals)
           ELSE LET config == get_configuration_by_name(fit_configurations, fit_config)
                IN  IF ~config.provides
                    THEN outcome = "ok" /\ FitDone(t, "AttributeError", NONE, fit_signals)
                    ELSE IF outcome = "estimator raises"
                    THEN /\ config.estimator # NONE
                         /\ FitDone(t, "EstimatorError", NONE, fit_signals)
                    ELSE IF outcome = "fit raises"
                    THEN FitDone(t, "FitError", NONE, fit_signals)
                    ELSE FitStep(t, "set_result",
                                 [fit_loc[t] EXCEPT !.result = ModelResult(fit_config)],
                                 last_fit_config, last_fit_result, access_lock, fit_signals)

\* lines 246 and 259: self._last_fit_result is assigned
FitSetResult(t) ==
    /\ fit_pc[t] = "set_result"
    /\ FitStep(t, "set_config", fit_loc[t], last_fit_config, fit_loc[t].result, access_lock,
               fit_signals)

\* lines 247 and 260: self._last_fit_config is assigned
FitSetConfig(t) ==
    /\ fit_pc[t] = "set_config"
    /\ FitStep(t, "emit", fit_loc[t], fit_loc[t].fit_config, last_fit_result, access_lock,
               fit_signals)

\* lines 261-262: the signal is emitted and the pair returned
FitEmit(t) ==
    /\ fit_pc[t] = "emit"
    /\ FitDone(t, "none", <<last_fit_config, last_fit_result>>,
               Append(fit_signals, <<last_fit_config, last_fit_result>>))

\* last_fit is read, line 236
LastFitBegin(t) ==
    /\ FitFree(t)
    /\ FitStep(t, "last_acquire",
               [IdleFitLoc EXCEPT !.op = "last_fit", !.n = fit_loc[t].n + 1],
               last_fit_config, last_fit_result, access_lock, fit_signals)

\* a last_fit that reads the two attributes without taking the lock
LastFitAcquireUnlocked(t) ==
    /\ fit_pc[t] = "last_acquire"
    /\ FitStep(t, "last_read", fit_loc[t], last_fit_config, last_fit_result, access_lock,
               fit_signals)

\* line 237
LastFitAcquire(t) ==
    /\ fit_pc[t] = "last_acquire"
    /\ access_lock = NoThread
    /\ FitStep(t, "last_read", fit_loc[t], last_fit_config, last_fit_result, t, fit_signals)

\* line 238
LastFitRead(t) ==
    /\ fit_pc[t] = "last_read"
    /\ FitDone(t, "none", <<last_fit_config, last_fit_result>>, fit_signals)

---------------------------------------------------------------------------
(* Specifications *)

RegistryInit ==
    /\ heap = [c \in Cells |-> FreeCell]
    /\ global_metadata = EmptyDict
    /\ global_metadata_lock = NoThread
    /\ committed = EmptyDict
    /\ pc = [t \in Threads |-> "idle"]
    /\ loc = [t \in Threads |-> IdleLoc]

\* a registry some earlier add_global_metadata('a', 1) has filled
RegistryFilled ==
    /\ heap = [c \in Cells |-> IF c = 1 THEN IntVal(1) ELSE FreeCell]
    /\ global_metadata = [k \in {"a"} |-> 1]
    /\ global_metadata_lock = NoThread
    /\ committed = global_metadata
    /\ pc = [t \in Threads |-> "idle"]
    /\ loc = [t \in Threads |-> IdleLoc]

StorageInit ==
    /\ \E c \in Constructions : self = Construct(c[1], c[2])
    /\ fs = [p \in {<<"o">>} |-> ForeignFile]
    /\ call = NoCall
    /\ NoFitModel

\* the program as it is: no class defines create_file_path
Init == RegistryFilled /\ StorageInit

StorageNext ==
    \/ \E n \in CallInputs, fault \in Faults : NewDataFile(n, fault)
    \/ \E data \in DataInputs, file_path \in AppendPaths, fault \in Faults :
          AppendDataFile(data, file_path, fault)
    \/ \E data \in DataInputs, n \in CallInputs, fault \in Faults : SaveData(data, n, fault)
    \/ \E path \in DOMAIN fs : DeleteFile(path)
    \/ \E path \in DOMAIN fs : LoadData(path)

Next == StorageNext

Spec == Init /\ [][Next]_vars

\* the program with create_file_path restored
InitResolved ==
    /\ RegistryFilled
    /\ \E c \in Constructions :
          self = [Construct(c[1], c[2]) EXCEPT !.create_file_path = "restored"]
    /\ fs = [p \in {<<"o">>} |-> ForeignFile]
    /\ call = NoCall
    /\ NoFitModel

SpecResolved == InitResolved /\ [][Next]_vars

\* the registry after add_global_metadata(entries) on an empty one
RegistryAfterAdd(entries) ==
    /\ heap = DeepCopyHeap([c \in Cells |-> FreeCell], entries)
    /\ global_metadata = DeepCopyRefs([c \in Cells |-> FreeCell], entries)
    /\ global_metadata_lock = NoThread
    /\ committed = global_metadata
    /\ pc = [t \in Threads |-> "idle"]
    /\ loc = [t \in Threads |-> IdleLoc]

\* the constructor calls considered for rendering headers: those above, and a
\* CsvDataStorage with a str column header and a comment prefix
HeaderConstructions ==
    Constructions
    \cup { <<"CsvDataStorage",
              [file_extension |-> NONE, include_global_metadata |-> TRUE,
               column_headers |-> <<"str", "x y">>, comments |-> <<"# ">>, delimiter |-> "\t"]>>,
            <<"CsvDataStorage",
              [file_extension |-> NONE, include_global_metadata |-> TRUE,
               column_headers |-> <<"str", "x y">>, comments |-> NONE, delimiter |-> "\t"]>> }

InitFunctions ==
    /\ \E entries \in Batches \cup {EmptyDict} : RegistryAfterAdd(entries)
    /\ \E c \in HeaderConstructions : self = Construct(c[1], c[2])
    /\ fs = NoFiles
    /\ call = NoCall
    /\ NoFitModel

FunctionsNext ==
    \/ \E n \in CallInputs : CreateHeader(n)
    \/ \E timestamp \in Timestamps, nametag \in NameTags :
          GetTimestampFilename(timestamp, nametag)

\* the calls of the module that work without a file
SpecFunctions == InitFunctions /\ [][FunctionsNext]_vars

\* the registry calls made while data are saved: adds and removes of two keys
ConcurrentBatches == {entries \in Batches : Cardinality(DOMAIN entries) = 2}

ConcurrentNameLists == {names \in NameLists : Len(names) = 2}

\* the instances the threads share: a TextDataStorage and an NpyDataStorage that
\* include the global metadata
ConcurrentConstructions ==
    {c \in Constructions : c[1] # "CsvDataStorage" /\ c[2].include_global_metadata}

\* a FitConfigurationsModel after its construction, and the calls on it
InitFit ==
    /\ RegistryInit
    /\ self = Construct("TextDataStorage", (CHOOSE c \in Constructions : TRUE)[2])
    /\ fs = NoFiles
    /\ call = NoCall
    /\ fit_configurations \in InitialConfigurations
    /\ fit_call = NoFitCall
    /\ NoFitContainer

FitNext ==
    \/ \E name \in FitNames, model \in FitModelArguments : AddConfiguration(name, model)
    \/ \E name \in FitNames : RemoveConfiguration(name)

SpecFit == InitFit /\ [][FitNext]_vars

\* a FitContainer after its construction with a model of three configurations,
\* and the threads that fit with it and read its last fit
InitContainer ==
    /\ RegistryInit
    /\ self = Construct("TextDataStorage", (CHOOSE c \in Constructions : TRUE)[2])
    /\ fs = NoFiles
    /\ call = NoCall
    /\ fit_configurations = ContainerConfigurations
    /\ fit_call = NoFitCall
    /\ NoFitContainer

ContainerNext ==
    \E t \in Threads :
        \/ \E fit_config \in FitConfigArguments : FitDataBegin(t, fit_config)
        \/ FitDataAcquire(t)
        \/ \E outcome \in FitOutcomes : FitDataLookup(t, outcome)
        \/ FitSetResult(t)
        \/ FitSetConfig(t)
        \/ FitEmit(t)
        \/ LastFitBegin(t)
        \/ LastFitAcquire(t)
        \/ LastFitRead(t)

SpecContainer == InitContainer /\ [][ContainerNext]_vars

\* the threads of the process saving data with one instance while they work on the
\* registry
ConcurrentNext ==
    \E t \in Threads :
        \/ \E data \in ThreadData(t) : SaveBegin(t, data)
        \/ HeaderBegin(t)
        \/ HeaderAcquire(t)
        \/ HeaderCopy(t)
        \/ OpenWrite(t)
        \/ WriteHeader(t)
        \/ SetCurrent(t)
        \/ AppendCheck(t)
        \/ WriteRows(t)
        \/ NpyOpen(t)
        \/ NpySave(t)
        \/ \E entries \in ConcurrentBatches : AddBegin(t, entries, TRUE)
        \/ AddAcquire(t)
        \/ AddCheck(t)
        \/ AddUpdate(t)
        \/ \E names \in ConcurrentNameLists : RemoveBegin(t, names)
        \/ RemoveAcquire(t)
        \/ RemovePop(t)

InitConcurrent ==
    /\ RegistryFilled
    /\ \E c \in ConcurrentConstructions :
          self = [Construct(c[1], c[2]) EXCEPT !.create_file_path = "restored"]
    /\ fs = NoFiles
    /\ call = NoCall
    /\ NoFitModel

SpecConcurrent == InitConcurrent /\ [][ConcurrentNext]_vars

\* the threads of the process working on the registry
RegistryNext ==
    \E t \in Threads :
        \/ \E entries \in Batches, overwrite \in BOOLEAN : AddBegin(t, entries, overwrite)
        \/ AddBadType(t)
        \/ AddAcquire(t)
        \/ AddCheck(t)
        \/ AddUpdate(t)
        \/ \E names \in NameLists : RemoveBegin(t, names)
        \/ RemoveAcquire(t)
        \/ RemovePop(t)
        \/ GetBegin(t)
        \/ GetAcquire(t)
        \/ GetCopy(t)
        \/ \E k \in Keys : CallerMutatesValue(t, k)
        \/ \E k \in Keys : CallerDeletesKey(t, k)

InitRegistry ==
    /\ RegistryInit
    /\ self = Construct("TextDataStorage", (CHOOSE c \in Constructions : TRUE)[2])
    /\ fs = NoFiles
    /\ call = NoCall
    /\ NoFitModel

SpecRegistry == InitRegistry /\ [][RegistryNext]_vars


---------------------------------------------------------------------------
(* Properties *)

\* the step is a whole call on the storage instance
Called(op) == call'.n # call.n /\ call'.op = op

\* the step is one of a caller working on a dict it was given: no thread moves on
\* in a registry call
CallerStep == pc' = pc /\ \A t \in Threads : loc'[t].n = loc[t].n

\* C1: save_data with a timestamp, a nametag or none and no filename, in a directory
\* that can be written, succeeds and returns a path whose file name is
\* get_timestamp_filename(timestamp, nametag) followed by the file extension of the
\* instance; with a filename, the file name is the filename, followed by the
\* extension unless it ends with it
C1_SaveDataNamesFile ==
    (call.op = "save_data" /\ call.args.fault = 0 /\ call.data.ndim <= 2)
    => /\ call.res.err = "ok"
       /\ call.res.timestamp = call.args.timestamp
       /\ LET ext == IF self.file_extension = NONE THEN <<>> ELSE self.file_extension
          IN  IF call.args.filename = NONE
              THEN call.res.path
                   = get_timestamp_filename(call.args.timestamp, call.args.nametag) \o ext
              ELSE call.res.path \in {call.args.filename, call.args.filename \o ext}

\* C2: an add_global_metadata without overwrite whose batch holds a key of the
\* registry raises KeyError, and the registry is then as it was: no key of the batch
\* is added and no value changes
C2_AddDuplicateLeavesRegistry ==
    [][\A t \in Threads :
          (pc[t] = "add_check" /\ pc'[t] # "add_check" /\ ~loc[t].overwrite
           /\ loc[t].keys \cap DOMAIN global_metadata # {})
          => /\ pc'[t] = "done"
             /\ loc'[t].err = "KeyError"
             /\ global_metadata' = committed
             /\ View(heap', global_metadata') = View(heap, global_metadata)]_vars

\* a batch of two keys, one of them new, has been refused
C2_Witness ==
    \E t \in Threads :
        /\ pc[t] = "done" /\ loc[t].op = "add" /\ loc[t].err = "KeyError"
        /\ loc[t].keys = {"a", "b"}
        /\ DOMAIN global_metadata \in {{"a"}, {"b"}}

\* C3: the dict a get_global_metadata returns is the registry as it was when no add
\* or remove had applied only part of its batch
C3_GetSeesWholeBatches ==
    [][\A t \in Threads :
          (pc[t] = "get_copy" /\ pc'[t] = "done") => loc'[t].ret = committed]_vars

\* a get has returned both keys of a two-key batch another thread added, and that
\* thread is removing them again
C3_Witness ==
    \E t, u \in Threads :
        /\ t # u
        /\ pc[t] = "done" /\ loc[t].op = "get" /\ DOMAIN loc[t].ret = {"a", "b"}
        /\ loc[u].op = "remove" /\ loc[u].keys = {"a", "b"} /\ pc[u] = "remove_pop"
        /\ Len(loc[u].todo) = 1

\* C4: nothing a caller does to the dict returned by get_global_metadata, or to a
\* value in it, changes what the registry shows, and no step of an add or remove
\* changes what a dict returned earlier shows
C4_GetReturnsDeepCopy ==
    [][/\ CallerStep => View(heap', global_metadata') = View(heap, global_metadata)
       /\ \A t \in Threads :
             (~CallerStep /\ HoldsResult(t) /\ pc'[t] = pc[t] /\ loc'[t].n = loc[t].n)
             => View(heap', loc'[t].ret) = View(heap, loc[t].ret)]_vars


\* C5: append_data_file raises FileNotFoundError and creates or changes no file when
\* it is given no path and new_data_file has created no file yet, when the path it is
\* given has no file, and when it is given no path and the file created last is gone
C5_AppendWithoutFile ==
    [][(/\ Called("append_data_file")
        /\ \/ call'.file_path = NONE /\ call.last_created = NONE
           \/ call'.file_path # NONE /\ call'.file_path \notin DOMAIN fs
           \/ /\ call'.file_path = NONE
              /\ call.last_created # NONE
              /\ call.last_created \notin DOMAIN fs)
       => (call'.res.err = "FileNotFoundError" /\ fs' = fs)]_vars

\* an append without path has failed after the file created last was deleted
C5_Witness ==
    /\ call.op = "append_data_file" /\ call.res.err = "FileNotFoundError"
    /\ call.file_path = NONE
    /\ call.last_created # NONE
    /\ call.last_created \notin DOMAIN fs

\* C6: the remembered file of a text storage is the file its new_data_file (called
\* directly or by save_data) created last, and none before the first; so no
\* append_data_file and no failing new_data_file changes it, and it is never cleared
C6_CurrentFileIsLastCreated ==
    /\ [](IsText(self) => self.current_data_file = call.last_created)
    /\ [][/\ Called("append_data_file") => self'.current_data_file = self.current_data_file
          /\ (Called("new_data_file") /\ call'.res.err # "ok")
             => self'.current_data_file = self.current_data_file
          /\ (Called("new_data_file") /\ call'.res.err = "ok")
             => self'.current_data_file = call'.res.path
          /\ self.current_data_file # NONE => self'.current_data_file # NONE]_vars

\* a new_data_file has failed, and an append to a given path has succeeded, after
\* a file was created and remembered
C6_Witness ==
    /\ IsText(self)
    /\ call.last_created # NONE
    /\ call.n = MaxCalls
    /\ \/ call.op = "new_data_file" /\ call.res.err = "OSError"
       \/ /\ call.op = "append_data_file" /\ call.res.err = "ok"
          /\ call.file_path \notin {NONE, call.last_created}

\* C7: a save_data that fails leaves no file that was not there before the call
C7_SaveDataAllOrNothing ==
    [][(Called("save_data") /\ call'.res.err # "ok") => DOMAIN fs' \subseteq DOMAIN fs]_vars

\* C8: NpyDataStorage.save_data succeeds only with the array file and the file
\* <base>_metadata.txt both written, and reports PartialWriteFailure when the second
\* cannot be written after the first was
C8_NpyPartialWrite ==
    [][(Called("save_data") /\ self.class = "NpyDataStorage")
       => /\ call'.res.err = "ok"
             => /\ call'.res.path \in DOMAIN fs'
                /\ fs'[call'.res.path] = NpyFile(call'.data)
                /\ ParamFilePath(call'.res.path) \in DOMAIN fs'
          /\ call'.args.fault = 2 => call'.res.err = "PartialWriteFailure"]_vars

\* C9: save_data of an array of more than two dimensions fails with an
\* unsupported-shape error (the ValueError of np.savetxt) and returns nothing
C9_SaveDataRejectsRank3 ==
    (call.op = "save_data" /\ call.data.ndim > 2 /\ call.args.fault = 0)
    => call.res.err = "ValueError"

\* C10: save_data and append_data_file of a 1-D array of length N return the shape
\* (1, N), and save_data leaves one data row of N columns
C10_OneRowForOneDimension ==
    [][((Called("save_data") \/ Called("append_data_file"))
        /\ call'.data.ndim = 1 /\ call'.res.err = "ok")
       => /\ call'.res.shape = <<1, call'.data.shape[1]>>
          /\ (Called("save_data") /\ IsText(self))
             => /\ Len(fs'[call'.res.path].rows) = 1
                /\ Len(fs'[call'.res.path].rows[1]) = 2 * call'.data.shape[1] - 1]_vars

\* a line of a header without the comment prefix of the instance that wrote it
Uncommented(s, line) ==
    IF IsText(s) /\ s.comments # NONE
    THEN SubSeq(line, Len(s.comments) + 1, Len(line))
    ELSE line

\* the lines of a header that show the metadata key k
KeyLines(s, header, k) ==
    {i \in 1..Len(header) :
        /\ Len(Uncommented(s, header[i])) >= 2
        /\ SubSeq(Uncommented(s, header[i]), 1, 2) = <<k, ": ">>}

C12_LoadInvertsSave ==
    [][(/\ Called("load_data")
        /\ IsText(self)
        /\ call.op = "save_data" /\ call.res.err = "ok"
        /\ call'.file_path = call.res.path)
       => /\ call'.res.err = "ok"
          /\ call'.returned = [data |-> call.data.rows, metadata |-> call.args.metadata,
                               notes |-> call.args.notes,
                               column_headers |-> self.column_headers]]_vars

\* C16: a thread that is at a statement which opens, writes or closes a file does
\* not hold the lock of the global metadata
C16_NoFileOperationUnderLock ==
    \A t \in Threads : pc[t] \in FileLabels => global_metadata_lock # t

\* a thread has a file open while the other thread holds the lock in the middle of
\* an add of two keys
C16_Witness ==
    \E t, u \in Threads :
        /\ pc[t] \in {"write_header", "write_rows", "npy_save"}
        /\ global_metadata_lock = u
        /\ pc[u] = "add_update" /\ Len(loc[u].todo) = 1 /\ loc[u].keys = {"a", "b"}

\* C18: every key of the registry is a str that is not empty, and an
\* add_global_metadata whose entries hold another key raises and leaves the
\* registry as it was
C18_RegistryKeysAreNames ==
    /\ [](\A k \in DOMAIN global_metadata : IsStrKey(k) /\ k # "")
    /\ [][\A t \in Threads :
             (/\ loc'[t].n # loc[t].n
              /\ loc'[t].op = "add"
              /\ \E k \in loc'[t].keys : ~IsStrKey(k) \/ k = "")
             => /\ pc'[t] = "done"
                /\ loc'[t].err # "none"
                /\ global_metadata' = global_metadata]_vars

\* C19: when save_data of a thread returns, the file of the path it returns holds
\* the header and the rows of this call and nothing else, and the call has written
\* its rows to no other file; the threads share a text storage and save to
\* different paths
C19_ConcurrentSavesKeepApart ==
    [][\A t \in Threads :
          (/\ IsText(self)
           /\ pc[t] = "write_rows" /\ pc'[t] = "done"
           /\ loc'[t].frame.res.err = "ok")
          => /\ fs'[loc'[t].frame.res.path]
                = TextFile(loc[t].frame.header, RowsWritten(self, loc[t].frame.data))
             /\ \A p \in DOMAIN fs \ {loc'[t].frame.res.path} : fs'[p] = fs[p]]_vars

\* C20: the names of the configurations of a FitConfigurationsModel are pairwise
\* distinct and none is 'No Fit'; add_configuration with a name in use or with
\* 'No Fit' raises, leaves the list as it was and emits no signal, and
\* remove_configuration of a name not in the list changes nothing and emits no signal
C20_ConfigurationNamesDistinct ==
    /\ [](/\ \A i, j \in 1..Len(fit_configurations) :
                fit_configurations[i].name = fit_configurations[j].name => i = j
          /\ \A i \in 1..Len(fit_configurations) : fit_configurations[i].name # "No Fit")
    /\ [][/\ (/\ fit_call'.n # fit_call.n
              /\ fit_call'.op = "add_configuration"
              /\ \/ fit_call'.name = "No Fit"
                 \/ \E i \in 1..Len(fit_configurations) :
                       fit_configurations[i].name = fit_call'.name)
             => /\ fit_call'.err # "ok"
                /\ fit_configurations' = fit_configurations
                /\ fit_call'.emitted = <<>>
          /\ (/\ fit_call'.n # fit_call.n
              /\ fit_call'.op = "remove_configuration"
              /\ \A i \in 1..Len(fit_configurations) :
                    fit_configurations[i].name # fit_call'.name)
             => /\ fit_configurations' = fit_configurations
                /\ fit_call'.emitted = <<>>]_vars

\* C13: get_timestamp_filename raises an error for a nametag that is not empty and
\* holds whitespace only, and returns the bare timestamp name for no other nametag
\* than None and the empty string
C13_BlankTagIsInvalid ==
    call.op = "get_timestamp_filename"
    => /\ (call.args.nametag \notin {NONE, <<>>} /\ Strip(call.args.nametag) = <<>>)
          => call.res.err # "ok"
       /\ (call.res.err = "ok" /\ call.returned = <<call.args.timestamp.name>>)
          => call.args.nametag \in {NONE, <<>>}

\* C14: the header of a CsvDataStorage with column headers ends with the line of the
\* column headers, and that line is without comment prefix
C14_CsvColumnHeaderLine ==
    (call.op = "create_header" /\ self.class = "CsvDataStorage" /\ self.column_headers # NONE)
    => call.returned[Len(call.returned)]
       = IF IsStrHeader(self.column_headers)
         THEN <<self.column_headers[2]>>
         ELSE Join(",", Tail(self.column_headers))

\* C15: save_data of a text storage does what new_data_file with the same arguments
\* followed by append_data_file(data) without path does: the same files, the same
\* remembered file, the path and timestamp of new_data_file with the shape of
\* append_data_file as result, or the exception of the step that failed; the file
\* returned holds the header and the rows of data and nothing it held before
C15_SaveDataIsNewThenAppend ==
    [][(Called("save_data") /\ IsText(self))
       => \A created \in {new_data_file(self, fs, GlobalView, call'.args)} :
             IF created.res.err # "ok"
             THEN fs' = created.fs /\ self' = created.self /\ call'.res = created.res
             ELSE \A appended \in {append_data_file(created.self, created.fs, call'.data,
                                                     NONE, call'.args.fault = 2)} :
                     /\ fs' = appended.fs
                     /\ self' = appended.self
                     /\ IF appended.res.err # "ok"
                        THEN call'.res = appended.res
                        ELSE /\ call'.res = Result("ok", created.res.path,
                                                   created.res.timestamp, appended.res.shape)
                             /\ fs'[call'.res.path]
                                = TextFile(create_header(self, GlobalView,
                                                         call'.args.metadata,
                                                         call'.args.notes,
                                                         call'.args.timestamp),
                                           RowsWritten(self, call'.data))]_vars

\* a save_data of a 1-D array has replaced the file another program left
C15_Witness ==
    /\ call.op = "save_data" /\ call.res.err = "ok"
    /\ IsText(self)
    /\ call.data.ndim = 1
    /\ call.res.path = <<"o">>
    /\ fs[<<"o">>].header # ForeignFile.header
    /\ self.current_data_file = <<"o">>

\* C17: an append_data_file that succeeds leaves the header and the rows of its
\* file in place and puts the rows of data after them, in the file of the path it
\* was given or else the remembered file, and changes no other file
C17_AppendAddsRowsAtEnd ==
    [][(Called("append_data_file") /\ call'.res.err = "ok")
       => LET target == IF call'.file_path = NONE THEN self.current_data_file
                        ELSE call'.file_path
          IN  /\ DOMAIN fs' = DOMAIN fs
              /\ fs'[target].header = fs[target].header
              /\ fs'[target].rows = fs[target].rows \o RowsWritten(self, call'.data)
              /\ \A p \in DOMAIN fs \ {target} : fs'[p] = fs[p]]_vars

\* the file new_data_file created holds the rows of two appends in call order, the
\* second of another length than the first
C17_Witness ==
    /\ call.op = "append_data_file" /\ call.res.err = "ok"
    /\ call.file_path = NONE
    /\ call.n = MaxCalls
    /\ call.last_created \in DOMAIN fs
    /\ Len(fs[call.last_created].rows) = 2
    /\ Len(fs[call.last_created].rows[1]) # Len(fs[call.last_created].rows[2])
    /\ fs[call.last_created].rows[2] = RowsWritten(self, call.data)[1]

\* the name and the result are those of one fit_data call, or those of construction
Together(config, result) ==
    IF config = "No Fit" THEN result = NONE ELSE result = ModelResult(config)

\* C21: the last fit of a FitContainer is changed by no step but the two
\* assignments of a fit_data call with a name, made under the access lock after
\* everything that can raise; a fit_data call that raises, and one without name
\* (which returns ('', None)), changes neither the name nor the result, emits no
\* sigLastFitResultChanged and ends with the lock released; fit_data('No Fit')
\* sets and returns ('No Fit', None); and no last_fit read, and no state with the
\* lock free, shows the name of one call with the result of another
C21_LastFitFrame ==
    /\ [][<<last_fit_config, last_fit_result>>' # <<last_fit_config, last_fit_result>>
          => \E t \in Threads :
                /\ access_lock = t
                /\ fit_pc[t] \in {"set_result", "set_config"}
                /\ fit_pc'[t] # fit_pc[t]
                /\ fit_loc[t].op = "fit_data"
                /\ fit_loc[t].fit_config # ""]_vars
    /\ [][\A t \in Threads :
             (fit_pc'[t] = "done" /\ fit_pc[t] # "done" /\ fit_loc[t].op = "fit_data")
             => /\ access_lock' # t
                /\ fit_loc[t].fit_config = ""
                   => fit_loc'[t].err = "none" /\ fit_loc'[t].ret = <<"", NONE>>
                /\ (fit_loc'[t].err # "none" \/ fit_loc[t].fit_config = "")
                   => /\ fit_pc[t] = "fit_lookup"
                      /\ last_fit_config' = last_fit_config
                      /\ last_fit_result' = last_fit_result
                      /\ fit_signals' = fit_signals
                /\ fit_loc[t].fit_config = "No Fit"
                   => /\ fit_loc'[t].err = "none"
                      /\ last_fit_config' = "No Fit" /\ last_fit_result' = NONE
                      /\ fit_loc'[t].ret = <<"No Fit", NONE>>]_vars
    /\ [](\A t \in Threads :
             (fit_pc[t] = "done" /\ fit_loc[t].op = "last_fit")
             => Together(fit_loc[t].ret[1], fit_loc[t].ret[2]))
    /\ [](access_lock = NoThread => Together(last_fit_config, last_fit_result))

\* a fit with the configuration e has raised after a fit with d had set the last
\* fit, which the other thread has read since
C21_Witness ==
    \E t, u \in Threads :
        /\ t # u
        /\ fit_pc[t] = "done" /\ fit_loc[t].op = "fit_data"
        /\ fit_loc[t].fit_config = "e" /\ fit_loc[t].err = "FitError"
        /\ fit_pc[u] = "done" /\ fit_loc[u].op = "last_fit"
        /\ fit_loc[u].ret = <<"d", ModelResult("d")>>
        /\ last_fit_config = "d" /\ last_fit_result = ModelResult("d")
        /\ Len(fit_signals) = 1
        /\ access_lock = NoThread

=============================================================================
